---- MODULE Spec2Model ----
(***************************************************************************)
(* A model of onpy's entity query/filter engine (onpy/entities/filter.py)  *)
(* and of its sketch entities and their transforms                         *)
(* (onpy/features/entities/sketch_entities.py).                            *)
(*                                                                         *)
(* Two specifications share the module's variables:                        *)
(*   FilterSpec  the EntityFilter operations against a remote evaluator    *)
(*               whose answer is a nondeterministic choice;                *)
(*   SketchSpec  construction of sketch entities and their rotate,         *)
(*               translate and mirror transforms.                          *)
(* Spec is their union.                                                    *)
(***************************************************************************)
EXTENDS Integers, Sequences, FiniteSets, TLC

VARIABLES
    filters,      \* every EntityFilter instance created so far, oldest first
    lastCall,     \* what the last filter operation did (its call record)
    entities,     \* the owning feature's (the sketch's) authoritative entity list
    objects,      \* every sketch-entity instance constructed so far, by identity
    hist          \* the last two calls on the sketch and its entities, newest first

vars == <<filters, lastCall, entities, objects, hist>>

(***************************************************************************)
(* Bounds of the model.                                                    *)
(***************************************************************************)
MaxFilters == 3     \* filter instances alive at once
MaxEntities == 1    \* entities added to the sketch
MaxObjects == 3     \* sketch-entity instances constructed in one behaviour
Resolution == 1000  \* derived lengths and unit directions are kept in 1/Resolution

(***************************************************************************)
(*                        THE QUERY FILTER ENGINE                          *)
(***************************************************************************)

\* The entity classes of onpy.entities; Entity is the generic one.
Entity == "Entity"
FaceEntity == "FaceEntity"
EdgeEntity == "EdgeEntity"
VertexEntity == "VertexEntity"
EntityClasses == {Entity, FaceEntity, EdgeEntity, VertexEntity}

\* What __orig_class__.__args__[0] of a filter instance can be: a class, the
\* type variable T of the class or E of is_type (EntityFilter[T](...) inside a
\* method subscripts the class with the type variable itself), a callable
\* that is no class, or nothing at all (an instance created as
\* EntityFilter(...), which has no __orig_class__ attribute).
TypeVarT == "~T"
TypeVarE == "~E"
NonClassCallable == "<function>"
NoOrigClass == "<no __orig_class__>"

\* The points and directions the callers pass.
Origin3 == <<0, 0, 0>>
XAxis3 == <<1, 0, 0>>

\* A query-result entity: onpy.entities.Entity(transient_id) or a subclass.
MkEntity(cls, tid) == [cls |-> cls, transient_id |-> tid]

\* EntityFilter.__init__; orig is what typing records as __orig_class__
\* when the instance is created through a subscripted alias.
EntityFilterInit(feature, available, orig) ==
    [feature |-> feature, available |-> available, orig_class |-> orig,
     made_by |-> [op |-> "init", variant |-> "", parent |-> 0]]

\* EntityFilter._entity_type: the outcome is a class, or the exception the
\* property raises.
EntityType(f) ==
    IF f.orig_class = NoOrigClass
    THEN [raised |-> TRUE, error |-> "AttributeError", cls |-> Entity]
    ELSE LET etype == IF f.orig_class \in {TypeVarT, TypeVarE}
                      THEN Entity      \* not callable: default to generic
                      ELSE f.orig_class
         IN IF etype \in EntityClasses
            THEN [raised |-> FALSE, error |-> "", cls |-> etype]
            ELSE [raised |-> TRUE, error |-> "TypeError", cls |-> Entity]

\* The unit system of the client the feature belongs to (self._client.units).
ClientUnits == "METER"

\* The query-intent objects of onpy.entities.queries, as the filter builds them.
qContainsPoint(point, units) == [queryType |-> "qContainsPoint", args |-> <<point, units>>]
qClosestTo(point, units) == [queryType |-> "qClosestTo", args |-> <<point, units>>]
qLargest == [queryType |-> "qLargest", args |-> <<>>]
qSmallest == [queryType |-> "qSmallest", args |-> <<>>]
qIntersectsLine(line_origin, line_direction, units) ==
    [queryType |-> "qIntersectsLine", args |-> <<line_origin, line_direction, units>>]
qEntityType(entity_type) == [queryType |-> "qEntityType", args |-> <<entity_type>>]

\* QueryType.inject_featurescript(q_to_filter): the fragment that applies the
\* predicate to the named query.
InjectFeaturescript(query, q_to_filter) ==
    [predicate |-> query, applied_to |-> q_to_filter]

\* Script with the last transient id left out of the union.
ScriptSkipsLast(f, query) ==
    LET transient_ids == [k \in 1..(Len(f.available) - 1) |-> f.available[k].transient_id]
        element_queries == [k \in 1..Len(transient_ids) |->
                              [queryType |-> "TRANSIENT", transientId |-> transient_ids[k]]]
    IN [transient_ids |-> transient_ids,
        cumulative_query |-> [fn |-> "qUnion", of |-> element_queries],
        specific_query |-> InjectFeaturescript(query, "cumulative_query")]

\* The featurescript _apply_query compiles: the list of transient ids, the
\* loop that turns each into a TRANSIENT query, their qUnion bound to
\* cumulative_query, and the specific query injected on cumulative_query.
Script(f, query) ==
    LET transient_ids == [k \in 1..Len(f.available) |-> f.available[k].transient_id]
        element_queries == [k \in 1..Len(transient_ids) |->
                              [queryType |-> "TRANSIENT", transientId |-> transient_ids[k]]]
    IN [transient_ids |-> transient_ids,
        cumulative_query |-> [fn |-> "qUnion", of |-> element_queries],
        specific_query |-> InjectFeaturescript(query, "cumulative_query")]

NoQuery == [queryType |-> "", args |-> <<>>]
NoScript == [transient_ids |-> <<>>,
             cumulative_query |-> [fn |-> "", of |-> <<>>],
             specific_query |-> [predicate |-> NoQuery, applied_to |-> ""]]
NoMessage == [text |-> "", script |-> NoScript]

\* The evaluator hands out the transient ids; an answer may name none, some
\* in any order, or ids of entities outside the working set.
AnswerValues == {<<>>, <<"t2", "t1">>, <<"t3">>}
\* What eval_featurescript(...).result can be: None when the evaluator failed
\* to evaluate the script, else {"value": [{"value": tid}, ...]}.
Answers ==
    {[ok |-> FALSE, value |-> <<>>]} \cup
    {[ok |-> TRUE, value |-> [k \in 1..Len(t) |-> [value |-> t[k]]]] :
        t \in AnswerValues}

\* onpy.util.misc.unwrap(object, message): the object, or an error carrying
\* the message when the object is None.
Unwrap(answer, message) ==
    IF answer.ok THEN [raised |-> FALSE, message |-> NoMessage, value |-> answer.value]
    ELSE [raised |-> TRUE, message |-> message, value |-> <<>>]

\* _apply_query that takes a failed evaluation for an empty result.
ApplyQueryEmptyOnFailure(f, query, answer) ==
    [script |-> Script(f, query), sent |-> <<Script(f, query)>>, raised |-> FALSE,
     error |-> "", message |-> NoMessage,
     entities |-> [k \in 1..Len(answer.value) |->
                      MkEntity(Entity, answer.value[k].value)]]

\* EntityFilter._apply_query: compile, submit once, unwrap, rebuild entities.
ApplyQuery(f, query, answer) ==
    LET script == Script(f, query)
        result == Unwrap(answer,
                    [text |-> "Query raised error when evaluating fs. Script:",
                     script |-> script])
        transient_ids == [k \in 1..Len(result.value) |-> result.value[k].value]
        etype == EntityType(f)
    IN IF result.raised
       THEN [script |-> script, sent |-> <<script>>, raised |-> TRUE,
             error |-> "unwrap", message |-> result.message, entities |-> <<>>]
       ELSE IF transient_ids # <<>> /\ etype.raised
       THEN [script |-> script, sent |-> <<script>>, raised |-> TRUE,
             error |-> etype.error, message |-> NoMessage, entities |-> <<>>]
       ELSE [script |-> script, sent |-> <<script>>, raised |-> FALSE,
             error |-> "", message |-> NoMessage,
             entities |-> [k \in 1..Len(transient_ids) |->
                              MkEntity(etype.cls, transient_ids[k])]]

(***************************************************************************)
(* The filter operations.  i is the index in filters of the instance the   *)
(* method is called on, answer the evaluator's reply to the one script the *)
(* call submits.  made_by is history kept for the properties below (which  *)
(* call created the instance); the program does not read it.               *)
(***************************************************************************)
NoCall == [op |-> "none", self |-> 0, args |-> <<>>, script |-> NoScript,
           sent |-> <<>>, answer |-> [ok |-> FALSE, value |-> <<>>],
           raised |-> FALSE, error |-> "", message |-> NoMessage,
           returned |-> 0, filters_before |-> <<>>]

CallRecord(op, i, args, answer, r, returned) ==
    [op |-> op, self |-> i, args |-> args, script |-> r.script, sent |-> r.sent,
     answer |-> answer, raised |-> r.raised, error |-> r.error,
     message |-> r.message, returned |-> returned, filters_before |-> filters]

MadeBy(op, variant, parent) == [op |-> op, variant |-> variant, parent |-> parent]

\* return EntityFilter[T](feature=self._feature, available=self._apply_query(query))
NewFilter(op, i, args, answer, r) ==
    IF r.raised
    THEN /\ filters' = filters
         /\ lastCall' = CallRecord(op, i, args, answer, r, 0)
    ELSE /\ filters' = Append(filters,
                [EntityFilterInit(filters[i].feature, r.entities, TypeVarT)
                    EXCEPT !.made_by = MadeBy(op, "", i)])
         /\ lastCall' = CallRecord(op, i, args, answer, r, Len(filters) + 1)

ContainsPoint(i, point, answer) ==
    /\ Len(filters) < MaxFilters
    /\ NewFilter("contains_point", i, <<point>>, answer,
                 ApplyQuery(filters[i], qContainsPoint(point, ClientUnits), answer))
    /\ UNCHANGED <<entities, objects, hist>>

ClosestTo(i, point, answer) ==
    /\ Len(filters) < MaxFilters
    /\ NewFilter("closest_to", i, <<point>>, answer,
                 ApplyQuery(filters[i], qClosestTo(point, ClientUnits), answer))
    /\ UNCHANGED <<entities, objects, hist>>

\* largest that narrows the instance it is called on and returns it.
LargestInPlace(i, answer) ==
    LET r == ApplyQuery(filters[i], qLargest, answer)
    IN /\ Len(filters) < MaxFilters
       /\ filters' = IF r.raised THEN filters
                     ELSE [filters EXCEPT ![i].available = r.entities]
       /\ lastCall' = CallRecord("largest", i, <<>>, answer, r,
                                 IF r.raised THEN 0 ELSE i)
       /\ UNCHANGED <<entities, objects, hist>>

Largest(i, answer) ==
    /\ Len(filters) < MaxFilters
    /\ NewFilter("largest", i, <<>>, answer,
                 ApplyQuery(filters[i], qLargest, answer))
    /\ UNCHANGED <<entities, objects, hist>>

Smallest(i, answer) ==
    /\ Len(filters) < MaxFilters
    /\ NewFilter("smallest", i, <<>>, answer,
                 ApplyQuery(filters[i], qSmallest, answer))
    /\ UNCHANGED <<entities, objects, hist>>

Intersects(i, origin, direction, answer) ==
    /\ Len(filters) < MaxFilters
    /\ NewFilter("intersects", i, <<origin, direction>>, answer,
                 ApplyQuery(filters[i],
                            qIntersectsLine(origin, direction, ClientUnits), answer))
    /\ UNCHANGED <<entities, objects, hist>>

\* is_type that rebuilds the entities of the instance, not of the result.
IsTypeOfSelf(i, entity_type, answer) ==
    LET r == ApplyQuery(filters[i], qEntityType(entity_type), answer)
        available == [k \in 1..Len(filters[i].available) |->
                        MkEntity(entity_type, filters[i].available[k].transient_id)]
    IN /\ Len(filters) < MaxFilters
       /\ IF r.raised
          THEN /\ filters' = filters
               /\ lastCall' = CallRecord("is_type", i, <<entity_type>>, answer, r, 0)
          ELSE /\ filters' = Append(filters,
                      [EntityFilterInit(filters[i].feature, available, TypeVarE)
                          EXCEPT !.made_by = MadeBy("is_type", entity_type, i)])
               /\ lastCall' = CallRecord("is_type", i, <<entity_type>>, answer, r,
                                         Len(filters) + 1)
       /\ UNCHANGED <<entities, objects, hist>>

\* is_type rebuilds every entity _apply_query returned as entity_type and
\* returns EntityFilter[E]: E is the method's type variable.
IsType(i, entity_type, answer) ==
    LET r == ApplyQuery(filters[i], qEntityType(entity_type), answer)
        available == [k \in 1..Len(r.entities) |->
                        MkEntity(entity_type, r.entities[k].transient_id)]
    IN /\ Len(filters) < MaxFilters
       /\ IF r.raised
          THEN /\ filters' = filters
               /\ lastCall' = CallRecord("is_type", i, <<entity_type>>, answer, r, 0)
          ELSE /\ filters' = Append(filters,
                      [EntityFilterInit(filters[i].feature, available, TypeVarE)
                          EXCEPT !.made_by = MadeBy("is_type", entity_type, i)])
               /\ lastCall' = CallRecord("is_type", i, <<entity_type>>, answer, r,
                                         Len(filters) + 1)
       /\ UNCHANGED <<entities, objects, hist>>

(***************************************************************************)
(*                  SKETCH ENTITIES AND THEIR TRANSFORMS                   *)
(*                                                                         *)
(* Coordinates are integers.  Angles of an arc's theta_interval (radians   *)
(* in the program) are kept in quarter turns: the value k stands for       *)
(* k*pi/2.  Angles given to rotate are degrees.  The inputs are chosen so  *)
(* that every trigonometric value the program computes is exact here:      *)
(* rotations by multiples of 90 degrees, arc bounds on the axes, mirror    *)
(* lines that are horizontal, vertical or diagonal.                        *)
(***************************************************************************)
Point2D(x, y) == [x |-> x, y |-> y]

\* Point2D.from_pair
FromPair(pair) == Point2D(pair[1], pair[2])

\* Point2D.as_tuple
AsTuple(p) == <<p.x, p.y>>

Abs(n) == IF n < 0 THEN -n ELSE n
Sign(n) == IF n < 0 THEN -1 ELSE IF n > 0 THEN 1 ELSE 0

\* floor of the square root, by bisection on [lo, hi]
RECURSIVE SqrtBetween(_, _, _)
SqrtBetween(n, lo, hi) ==
    IF lo >= hi THEN lo
    ELSE LET mid == (lo + hi + 1) \div 2
         IN IF mid * mid <= n THEN SqrtBetween(n, mid, hi)
            ELSE SqrtBetween(n, lo, mid - 1)

\* math.sqrt(n), in 1/Resolution
Sqrt(n) == SqrtBetween(n * Resolution * Resolution, 0, (n + 1) * Resolution)

\* math.acos(num / |v|) in quarter turns, vv the squared norm of v; the
\* result lies in [0, pi].
AcosQ(num, vv) ==
    CASE num = 0 /\ vv > 0 -> 1
      [] num > 0 /\ num * num = vv -> 0
      [] num < 0 /\ num * num = vv -> 2

\* 2 * math.acos(dot / (|v| * |m|)) in quarter turns, vv and mm the squared
\* norms: the angle between the vectors is 0, 45, 90, 135 or 180 degrees.
TwiceAcosQ(dot, vv, mm) ==
    CASE dot = 0 /\ vv * mm > 0 -> 2
      [] dot > 0 /\ dot * dot = vv * mm -> 0
      [] dot < 0 /\ dot * dot = vv * mm -> 4
      [] dot > 0 /\ 2 * dot * dot = vv * mm -> 1
      [] dot < 0 /\ 2 * dot * dot = vv * mm -> 3

\* math.cos and math.sin of k quarter turns
CosQ(k) == LET m == k % 4 IN IF m = 0 THEN 1 ELSE IF m = 2 THEN -1 ELSE 0
SinQ(k) == LET m == k % 4 IN IF m = 1 THEN 1 ELSE IF m = 3 THEN -1 ELSE 0

\* math.cos and math.sin of an angle in degrees, a multiple of 90
CosDeg(d) == CosQ(d \div 90)
SinDeg(d) == SinQ(d \div 90)

\* Entity._rotate_point(point, pivot, degrees): counter-clockwise about pivot.
RotatePoint(point, pivot, degrees) ==
    LET dx == point.x - pivot.x
        dy == point.y - pivot.y
    IN Point2D(pivot.x + dx * CosDeg(degrees) - dy * SinDeg(degrees),
               pivot.y + dx * SinDeg(degrees) + dy * CosDeg(degrees))

\* Entity._mirror_point(point, line_start, line_end): the reflection of point
\* across the infinite line through the two points; a line of zero length
\* has no reflection and is rejected with a domain error.
MirrorPoint(point, line_start, line_end) ==
    LET dx == line_end.x - line_start.x
        dy == line_end.y - line_start.y
        px == point.x - line_start.x
        py == point.y - line_start.y
        dd == dx * dx + dy * dy
        t2 == 2 * (px * dx + py * dy)
    IN IF dd = 0
       THEN [raised |-> TRUE, error |-> "domain error", point |-> point]
       ELSE [raised |-> FALSE, error |-> "",
             point |-> Point2D(line_start.x + (t2 * dx) \div dd - px,
                               line_start.y + (t2 * dy) \div dd - py)]

\* Entity.generate_entity_id: an id no other entity carries.
GenerateEntityId == Len(objects) + 1

TheSketch == "sketch"

\* SketchCircle.__init__
SketchCircleInit(sketch, radius, center, units, dir, clockwise) ==
    [kind |-> "circle", sketch |-> sketch, radius |-> radius, center |-> center,
     units |-> units, dir |-> FromPair(dir), clockwise |-> clockwise,
     entity_id |-> GenerateEntityId]

\* SketchLine.__init__: length and unit direction are derived from the
\* end points (atan2(0, 0) is 0, so a line of length 0 points along +x).
SketchLineInit(sketch, start_point, end_point, units) ==
    LET dx == end_point.x - start_point.x
        dy == end_point.y - start_point.y
        length == Sqrt(dx * dx + dy * dy)
        unit_direction ==
            IF length = 0 THEN Point2D(Resolution, 0)
            ELSE Point2D(Sign(dx) * ((Abs(dx) * Resolution * Resolution) \div length),
                         Sign(dy) * ((Abs(dy) * Resolution * Resolution) \div length))
    IN [kind |-> "line", sketch |-> sketch, start |-> start_point, end |-> end_point,
        units |-> units, entity_id |-> GenerateEntityId,
        length |-> Abs(length), dir |-> unit_direction]

\* SketchArc.__init__
SketchArcInit(sketch, radius, center, theta_interval, units, dir, clockwise) ==
    [kind |-> "arc", sketch |-> sketch, radius |-> radius, center |-> center,
     theta_interval |-> theta_interval, dir |-> dir, clockwise |-> clockwise,
     entity_id |-> GenerateEntityId, units |-> units]

(***************************************************************************)
(* The outcome of a transform call on the instance self: the state of self *)
(* when the call ends, the instances it constructed, the calls it made to  *)
(* the owning feature's replace-entity hook, and what it returned or       *)
(* raised.                                                                 *)
(***************************************************************************)
\* self._replace_entity(new_entity); return new_entity
Replaced(self, new_entity) ==
    [raised |-> FALSE, error |-> "", self_after |-> self,
     constructed |-> <<new_entity>>,
     hook |-> <<[old |-> self.entity_id, new |-> new_entity.entity_id]>>,
     returned |-> new_entity.entity_id]

\* the call raises before it constructs anything
Raises(self, error) ==
    [raised |-> TRUE, error |-> error, self_after |-> self,
     constructed |-> <<>>, hook |-> <<>>, returned |-> 0]

\* SketchCircle.rotate
CircleRotate(self, origin, theta) ==
    LET new_center == RotatePoint(self.center, FromPair(origin), theta)
    IN Replaced(self, SketchCircleInit(self.sketch, self.radius, new_center,
                        self.units, AsTuple(self.dir), self.clockwise))

\* translate that moves the instance itself and returns it.
CircleTranslateInPlace(self, x, y) ==
    [raised |-> FALSE, error |-> "",
     self_after |-> [self EXCEPT !.center = Point2D(self.center.x + x, self.center.y + y)],
     constructed |-> <<>>, hook |-> <<>>, returned |-> self.entity_id]

\* SketchCircle.translate
CircleTranslate(self, x, y) ==
    LET new_center == Point2D(self.center.x + x, self.center.y + y)
    IN Replaced(self, SketchCircleInit(self.sketch, self.radius, new_center,
                        self.units, AsTuple(self.dir), self.clockwise))

\* mirror that ignores the rejection of the mirror line.
CircleMirrorUnchecked(self, line_start, line_end) ==
    LET new_center == MirrorPoint(self.center, FromPair(line_start), FromPair(line_end))
    IN Replaced(self, SketchCircleInit(self.sketch, self.radius, new_center.point,
                        self.units, AsTuple(self.dir), self.clockwise))

\* SketchCircle.mirror
CircleMirror(self, line_start, line_end) ==
    LET mirror_start == FromPair(line_start)
        mirror_end == FromPair(line_end)
        new_center == MirrorPoint(self.center, mirror_start, mirror_end)
    IN IF new_center.raised THEN Raises(self, new_center.error)
       ELSE Replaced(self, SketchCircleInit(self.sketch, self.radius,
                             new_center.point, self.units, AsTuple(self.dir),
                             self.clockwise))

\* SketchLine.rotate
LineRotate(self, origin, theta) ==
    LET new_start == RotatePoint(self.start, FromPair(origin), theta)
        new_end == RotatePoint(self.end, FromPair(origin), theta)
    IN Replaced(self, SketchLineInit(self.sketch, new_start, new_end, self.units))

\* SketchLine.mirror
LineMirror(self, line_start, line_end) ==
    LET mirror_start == FromPair(line_start)
        mirror_end == FromPair(line_end)
        new_start == MirrorPoint(self.start, mirror_start, mirror_end)
        new_end == MirrorPoint(self.end, mirror_start, mirror_end)
    IN IF new_start.raised THEN Raises(self, new_start.error)
       ELSE IF new_end.raised THEN Raises(self, new_end.error)
       ELSE Replaced(self, SketchLineInit(self.sketch, new_start.point,
                                          new_end.point, self.units))

\* translate that takes the new end's x from the start point.
LineTranslateFromStart(self, x, y) ==
    LET new_start == Point2D(self.start.x + x, self.start.y + y)
        new_end == Point2D(self.start.x + x, self.end.y + y)
    IN Replaced(self, SketchLineInit(self.sketch, new_start, new_end, self.units))

\* SketchLine.translate
LineTranslate(self, x, y) ==
    LET new_start == Point2D(self.start.x + x, self.start.y + y)
        new_end == Point2D(self.end.x + x, self.end.y + y)
    IN Replaced(self, SketchLineInit(self.sketch, new_start, new_end, self.units))

\* SketchArc.mirror
ArcMirror(self, line_start, line_end) ==
    LET mirror_start == FromPair(line_start)
        mirror_end == FromPair(line_end)
        start_point0 ==
            Point2D(self.radius * CosQ(self.theta_interval[1]) + self.center.x,
                    self.radius * SinQ(self.theta_interval[1]) + self.center.y)
        mirrored_start == MirrorPoint(start_point0, mirror_start, mirror_end)
        mirrored_center == MirrorPoint(self.center, mirror_start, mirror_end)
    IN IF mirrored_start.raised THEN Raises(self, mirrored_start.error)
       ELSE IF mirrored_center.raised THEN Raises(self, mirrored_center.error)
       ELSE LET start_point == mirrored_start.point
                new_center == mirrored_center.point
                arc_start_vector == <<start_point.x - new_center.x,
                                      start_point.y - new_center.y>>
                mirror_line_vector == <<mirror_end.x - mirror_start.x,
                                        mirror_end.y - mirror_start.y>>
                angle_offset ==
                    TwiceAcosQ(arc_start_vector[1] * mirror_line_vector[1]
                                 + arc_start_vector[2] * mirror_line_vector[2],
                               arc_start_vector[1] * arc_start_vector[1]
                                 + arc_start_vector[2] * arc_start_vector[2],
                               mirror_line_vector[1] * mirror_line_vector[1]
                                 + mirror_line_vector[2] * mirror_line_vector[2])
                d_theta == self.theta_interval[2] - self.theta_interval[1]
                new_theta == <<self.theta_interval[1] - angle_offset - d_theta,
                               self.theta_interval[1] - angle_offset>>
            IN Replaced(self, SketchArcInit(self.sketch, self.radius, new_center,
                                new_theta, self.units, self.dir, self.clockwise))

\* SketchArc.translate
ArcTranslate(self, x, y) ==
    LET new_center == Point2D(self.center.x + x, self.center.y + y)
    IN Replaced(self, SketchArcInit(self.sketch, self.radius, new_center,
                        self.theta_interval, self.units, self.dir, self.clockwise))

\* SketchArc.rotate
ArcRotate(self, origin, theta) ==
    LET pivot == FromPair(origin)
        start_point0 ==
            Point2D(self.radius * CosQ(self.theta_interval[1]) + self.center.x,
                    self.radius * SinQ(self.theta_interval[1]) + self.center.y)
        new_center == RotatePoint(self.center, pivot, theta)
        start_point == RotatePoint(start_point0, pivot, theta)
        d_theta == self.theta_interval[2] - self.theta_interval[1]
        arc_start_vector == <<start_point.x - new_center.x,
                              start_point.y - new_center.y>>
        angle_start == AcosQ(arc_start_vector[1] * 1 + arc_start_vector[2] * 0,
                             arc_start_vector[1] * arc_start_vector[1]
                               + arc_start_vector[2] * arc_start_vector[2])
        new_theta == <<angle_start, angle_start + d_theta>>
    IN Replaced(self, SketchArcInit(self.sketch, self.radius, new_center,
                        new_theta, self.units, self.dir, self.clockwise))

(***************************************************************************)
(* The sketch: the owning feature of the entities.                         *)
(***************************************************************************)
\* The values callers construct entities from and pass to the transforms.
\* The constructors take any radius; an arc of radius 0 is left out (its
\* start vector has no angle for rotate and mirror to compute).
CircleInputs == {<<2, Point2D(1, 0), "METER", FALSE>>, <<1, Point2D(1, 2), "INCH", TRUE>>,
                 <<0, Point2D(1, 0), "METER", FALSE>>}
LineInputs == {<<Point2D(0, 0), Point2D(1, 0), "INCH">>,
               <<Point2D(1, 2), Point2D(-2, -2), "METER">>,
               <<Point2D(1, 1), Point2D(1, 1), "METER">>}
ArcInputs == {<<1, Point2D(0, 0), <<0, 1>>, "METER">>, <<1, Point2D(0, 0), <<1, 3>>, "METER">>,
              <<1, Point2D(0, 0), <<2, 3>>, "INCH">>, <<1, Point2D(0, 0), <<3, 4>>, "METER">>,
              <<2, Point2D(1, 2), <<0, 2>>, "METER">>, <<2, Point2D(1, 2), <<3, 5>>, "INCH">>,
              <<-1, Point2D(0, 0), <<0, 1>>, "METER">>}
RotateOrigins == {<<0, 0>>, <<1, 1>>}
RotateThetas == {90, -90, 180}
Offsets == {<<3, 4>>, <<-3, -4>>, <<0, -1>>, <<0, 1>>}
MirrorLines == {<<<<0, 0>>, <<1, 0>>>>, <<<<1, 0>>, <<1, 2>>>>,
                <<<<0, 0>>, <<1, 1>>>>, <<<<1, 1>>, <<0, 0>>>>,
                <<<<0, 1>>, <<1, 0>>>>, <<<<1, 1>>, <<1, 1>>>>}

\* hist keeps the last two calls, newest first.
LastTwo(calls) == IF Len(calls) > 2 THEN SubSeq(calls, 1, 2) ELSE calls

\* The sketch's add_circle / add_line / add_arc: construct the entity and
\* append it to the sketch's entity list.
AddEntity(e, args) ==
    /\ Len(entities) < MaxEntities
    /\ Len(objects) < MaxObjects
    /\ objects' = Append(objects, e)
    /\ entities' = Append(entities, e.entity_id)
    /\ hist' = LastTwo(<<[op |-> "add", self |-> 0, args |-> args,
                          raised |-> FALSE, error |-> "",
                          returned |-> e.entity_id, hook |-> <<>>,
                          objects_before |-> objects,
                          entities_before |-> entities]>> \o hist)
    /\ UNCHANGED <<filters, lastCall>>

AddCircle(radius, center, units, clockwise) ==
    AddEntity(SketchCircleInit(TheSketch, radius, center, units, <<1, 0>>, clockwise),
              <<"circle", radius, center, units>>)

AddLine(start_point, end_point, units) ==
    AddEntity(SketchLineInit(TheSketch, start_point, end_point, units),
              <<"line", start_point, end_point, units>>)

AddArc(radius, center, theta_interval, units) ==
    AddEntity(SketchArcInit(TheSketch, radius, center, theta_interval, units,
                            <<1, 0>>, FALSE),
              <<"arc", radius, center, units>>)

\* Entity._replace_entity(new_entity), through the sketch: the entry of the
\* sketch's list that is the old entity becomes the new one.
ReplaceEntity(list, call) ==
    [k \in 1..Len(list) |-> IF list[k] = call.old THEN call.new ELSE list[k]]

RECURSIVE ReplaceAll(_, _)
ReplaceAll(list, calls) ==
    IF calls = <<>> THEN list
    ELSE ReplaceAll(ReplaceEntity(list, Head(calls)), Tail(calls))

\* A transform call on the entity at position k of the sketch, with outcome out.
Transform(op, k, args, out) ==
    LET i == entities[k]
    IN /\ Len(objects) < MaxObjects
       /\ objects' = [objects EXCEPT ![i] = out.self_after] \o out.constructed
       /\ entities' = ReplaceAll(entities, out.hook)
       /\ hist' = LastTwo(<<[op |-> op, self |-> i, args |-> args,
                             raised |-> out.raised, error |-> out.error,
                             returned |-> out.returned, hook |-> out.hook,
                             objects_before |-> objects,
                             entities_before |-> entities]>> \o hist)
       /\ UNCHANGED <<filters, lastCall>>

Rotate(k, origin, theta) ==
    LET self == objects[entities[k]]
    IN Transform("rotate", k, <<origin, theta>>,
                 CASE self.kind = "circle" -> CircleRotate(self, origin, theta)
                   [] self.kind = "line" -> LineRotate(self, origin, theta)
                   [] self.kind = "arc" -> ArcRotate(self, origin, theta))

Translate(k, x, y) ==
    LET self == objects[entities[k]]
    IN Transform("translate", k, <<x, y>>,
                 CASE self.kind = "circle" -> CircleTranslate(self, x, y)
                   [] self.kind = "line" -> LineTranslate(self, x, y)
                   [] self.kind = "arc" -> ArcTranslate(self, x, y))

Mirror(k, line_start, line_end) ==
    LET self == objects[entities[k]]
    IN Transform("mirror", k, <<line_start, line_end>>,
                 CASE self.kind = "circle" -> CircleMirror(self, line_start, line_end)
                   [] self.kind = "line" -> LineMirror(self, line_start, line_end)
                   [] self.kind = "arc" -> ArcMirror(self, line_start, line_end))

(***************************************************************************)
(* The specifications.                                                     *)
(***************************************************************************)
\* The filters a feature hands out first: over its materialized entities,
\* created as EntityFilter[<class>](...) or without a type argument.
InitialTypeArgs == {Entity, FaceEntity, NoOrigClass, NonClassCallable}
InitialFilters ==
    {EntityFilterInit(TheSketch,
                      [k \in 1..Len(t) |->
                          MkEntity(IF orig \in EntityClasses THEN orig ELSE Entity, t[k])],
                      orig) :
        t \in {<<"t1", "t2">>}, orig \in InitialTypeArgs}

\* The entity the feature of the filters owns: SketchLine (0,0)-(1,0).
FeatureLine ==
    [kind |-> "line", sketch |-> TheSketch, start |-> Point2D(0, 0),
     end |-> Point2D(1, 0), units |-> "METER", entity_id |-> 1,
     length |-> Resolution, dir |-> Point2D(Resolution, 0)]

FilterInit ==
    /\ filters \in {<<f>> : f \in InitialFilters}
    /\ lastCall = NoCall
    /\ objects = <<FeatureLine>>
    /\ entities = <<1>>
    /\ hist = <<>>

FilterNext ==
    \E i \in 1..Len(filters), answer \in Answers :
        \/ ContainsPoint(i, Origin3, answer)
        \/ ClosestTo(i, Origin3, answer)
        \/ Largest(i, answer)
        \/ Smallest(i, answer)
        \/ Intersects(i, Origin3, XAxis3, answer)
        \/ IsType(i, FaceEntity, answer)

FilterSpec == FilterInit /\ [][FilterNext]_vars

SketchInit ==
    /\ filters = <<>>
    /\ lastCall = NoCall
    /\ objects = <<>>
    /\ entities = <<>>
    /\ hist = <<>>

SketchNext ==
    \/ \E c \in CircleInputs : AddCircle(c[1], c[2], c[3], c[4])
    \/ \E l \in LineInputs : AddLine(l[1], l[2], l[3])
    \/ \E a \in ArcInputs : AddArc(a[1], a[2], a[3], a[4])
    \/ \E k \in 1..Len(entities) :
          \/ \E origin \in RotateOrigins, theta \in RotateThetas : Rotate(k, origin, theta)
          \/ \E d \in Offsets : Translate(k, d[1], d[2])
          \/ \E m \in MirrorLines : Mirror(k, m[1], m[2])

SketchSpec == SketchInit /\ [][SketchNext]_vars

Init == FilterInit \/ SketchInit
Next == FilterNext \/ SketchNext
Spec == Init /\ [][Next]_vars

(***************************************************************************)
(*                              PROPERTIES                                 *)
(***************************************************************************)
Called == lastCall.op # "none"
Self == lastCall.filters_before[lastCall.self]

\* C1: a filter operation returns a new filter instance and changes neither
\* the working set of any existing filter (the one it was called on
\* included) nor the owning feature's entity list.
C1_FiltersNeverMutated ==
    [][/\ Len(filters') >= Len(filters)
       /\ \A k \in 1..Len(filters) : filters'[k] = filters[k]
       /\ entities' = entities
       /\ objects' = objects
       /\ ~lastCall'.raised => /\ lastCall'.returned = Len(filters) + 1
                               /\ Len(filters') = Len(filters) + 1]_vars

\* A chain of two operations, each narrowing to another working set.
C1_Witness ==
    /\ Len(filters) = 3
    /\ filters[2].made_by.parent = 1
    /\ filters[3].made_by.parent = 2
    /\ filters[2].available # filters[1].available
    /\ filters[3].available # filters[2].available
    /\ filters[3].available # <<>>

\* The predicate each operation asks for.
RequestedPredicate(op) ==
    CASE op = "contains_point" -> "qContainsPoint"
      [] op = "closest_to" -> "qClosestTo"
      [] op = "largest" -> "qLargest"
      [] op = "smallest" -> "qSmallest"
      [] op = "intersects" -> "qIntersectsLine"
      [] op = "is_type" -> "qEntityType"

\* C2: the one script a filter operation submits builds its union from
\* exactly the transient ids of the working set of the filter it was called
\* on, in working-set order, and applies the requested predicate (with the
\* caller's arguments) to that union.
C2_ScriptAnchorsWorkingSet ==
    Called =>
        LET sc == lastCall.script
            ws == Self.available
        IN /\ lastCall.sent = <<sc>>
           /\ sc.transient_ids = [k \in 1..Len(ws) |-> ws[k].transient_id]
           /\ sc.cumulative_query =
                 [fn |-> "qUnion",
                  of |-> [k \in 1..Len(ws) |->
                            [queryType |-> "TRANSIENT",
                             transientId |-> ws[k].transient_id]]]
           /\ sc.specific_query.applied_to = "cumulative_query"
           /\ sc.specific_query.predicate.queryType = RequestedPredicate(lastCall.op)
           /\ \A k \in 1..Len(lastCall.args) :
                 sc.specific_query.predicate.args[k] = lastCall.args[k]

\* contains_point on a derived filter whose working set is <<t2, t1>>.
C2_Witness ==
    /\ lastCall.op = "contains_point"
    /\ lastCall.self = 2
    /\ lastCall.script.transient_ids = <<"t2", "t1">>

\* The variant a filter was declared with: that of the is_type call at the
\* root of the chain of operations that produced it ("" when there is none).
RECURSIVE DeclaredVariant(_)
DeclaredVariant(k) ==
    LET m == filters[k].made_by
    IN IF m.op = "is_type" THEN m.variant
       ELSE IF m.op = "init" THEN ""
       ELSE DeclaredVariant(m.parent)

\* C3: every filter derived from an is_type(V) filter by contains_point,
\* closest_to, largest, smallest or intersects holds only entities of
\* variant V.
C3_VariantCarriedThroughChain ==
    \A k \in 1..Len(filters) :
        DeclaredVariant(k) # "" =>
            \A j \in 1..Len(filters[k].available) :
                filters[k].available[j].cls = DeclaredVariant(k)

\* C4: when the evaluator fails to evaluate the script, the operation raises
\* an error that carries the script it submitted, returns no filter, leaves
\* the filters as they were and has submitted the script once.
C4_EvaluatorFailurePropagates ==
    (Called /\ ~lastCall.answer.ok) =>
        /\ lastCall.raised
        /\ lastCall.message.script = lastCall.script
        /\ lastCall.sent = <<lastCall.script>>
        /\ lastCall.script.transient_ids =
              [k \in 1..Len(Self.available) |-> Self.available[k].transient_id]
        /\ lastCall.returned = 0
        /\ filters = lastCall.filters_before

\* is_type on a non-empty working set, failed by the evaluator.
C4_Witness ==
    /\ lastCall.op = "is_type"
    /\ ~lastCall.answer.ok
    /\ lastCall.raised
    /\ Self.available # <<>>

\* C6: after a successful filter operation the returned filter holds one
\* entity per transient id of the evaluator's answer, in the answer's order,
\* each carrying that id.
C6_WorkingSetIsTheAnswer ==
    (Called /\ ~lastCall.raised) =>
        LET ws == filters[lastCall.returned].available
            ids == lastCall.answer.value
        IN /\ Len(ws) = Len(ids)
           /\ \A k \in 1..Len(ids) : ws[k].transient_id = ids[k].value

\* is_type answered with two ids in the order opposite to the working set's.
C6_Witness ==
    /\ lastCall.op = "is_type"
    /\ ~lastCall.raised
    /\ Self.available # <<>>
    /\ Self.available[1].transient_id = "t1"
    /\ Len(filters[lastCall.returned].available) = 2
    /\ filters[lastCall.returned].available[1].transient_id = "t2"

\* The last call was a transform that returned; the instance a call was made
\* on as it was before the call, and the instance the call returned.
Transforms == {"rotate", "translate", "mirror"}
Transformed == hist # <<>> /\ hist[1].op \in Transforms /\ ~hist[1].raised
Original(c) == c.objects_before[c.self]
Result(c) == objects[c.returned]

\* C5: a transform that returns constructs a new instance of the same kind
\* whose entity_id no earlier instance carries, leaves every field of the
\* original (and of every other instance) as it was, calls the feature's
\* replace-entity hook exactly once, with the original and the new entity,
\* and returns the new entity.
C5_TransformHandsOffIdentity ==
    Transformed =>
        LET c == hist[1]
        IN /\ Len(objects) = Len(c.objects_before) + 1
           /\ c.returned = Len(objects)
           /\ \A j \in 1..Len(c.objects_before) :
                 /\ objects[j] = c.objects_before[j]
                 /\ objects[j].entity_id # Result(c).entity_id
           /\ Result(c).kind = Original(c).kind
           /\ c.hook = <<[old |-> Original(c).entity_id, new |-> Result(c).entity_id]>>
           /\ \A k \in 1..Len(entities) :
                 entities[k] = IF c.entities_before[k] = Original(c).entity_id
                               THEN Result(c).entity_id
                               ELSE c.entities_before[k]

\* mirror has returned, on an arc that a rotate returned, and moved its center.
C5_Witness ==
    /\ Len(hist) = 2
    /\ ~hist[1].raised /\ ~hist[2].raised
    /\ hist[1].op = "mirror" /\ hist[2].op = "rotate"
    /\ Original(hist[1]).kind = "arc"
    /\ hist[1].self = hist[2].returned
    /\ Result(hist[1]).center # Original(hist[1]).center

\* An entity's fields but for its identity.
Geometry(e) == [e EXCEPT !.entity_id = 0]

\* Two entities are geometrically equal: the same kind, defining points,
\* radius or length, direction and clockwise flag, and for arcs the same
\* angular interval up to whole turns.
GeomEq(a, b) ==
    /\ a.kind = b.kind
    /\ IF a.kind = "arc"
       THEN /\ [Geometry(a) EXCEPT !.theta_interval = <<0, 0>>]
                = [Geometry(b) EXCEPT !.theta_interval = <<0, 0>>]
            /\ a.theta_interval[1] % 4 = b.theta_interval[1] % 4
            /\ a.theta_interval[2] - a.theta_interval[1]
                = b.theta_interval[2] - b.theta_interval[1]
       ELSE Geometry(a) = Geometry(b)

\* The last two calls are op on an entity and then op on the entity the
\* first call returned, both returning.
Pair(op) ==
    /\ Len(hist) = 2
    /\ hist[1].op = op /\ hist[2].op = op
    /\ ~hist[1].raised /\ ~hist[2].raised
    /\ hist[1].self = hist[2].returned

TranslatedBack ==
    /\ Pair("translate")
    /\ hist[1].args = <<-hist[2].args[1], -hist[2].args[2]>>

\* C7: translate(dx, dy) followed by translate(-dx, -dy) yields an entity
\* with the very fields of the original, identity apart.
C7_TranslateRoundTrip ==
    TranslatedBack => Geometry(Result(hist[1])) = Geometry(Original(hist[2]))

\* translate(3, 4) then translate(-3, -4) on a line of non-zero length.
C7_Witness ==
    /\ TranslatedBack
    /\ hist[2].args = <<3, 4>>
    /\ Original(hist[2]).kind = "line"
    /\ Original(hist[2]).length > 0
    /\ Original(hist[1]).start # Original(hist[2]).start

RotatedBack ==
    /\ Pair("rotate")
    /\ hist[1].args = <<hist[2].args[1], -hist[2].args[2]>>

\* C8: rotate(origin, theta) followed by rotate(origin, -theta) yields an
\* entity geometrically equal to the original.
C8_RotateRoundTrip ==
    RotatedBack => GeomEq(Result(hist[1]), Original(hist[2]))

\* The part of C8 about circles and lines.
C8_RotateRoundTripNoArc ==
    (RotatedBack /\ Original(hist[2]).kind # "arc") =>
        GeomEq(Result(hist[1]), Original(hist[2]))

MirroredBack ==
    /\ Pair("mirror")
    /\ hist[1].args = hist[2].args

\* The point of an arc at angle k (in quarter turns).
ArcPoint(e, k) ==
    Point2D(e.center.x + e.radius * CosQ(k), e.center.y + e.radius * SinQ(k))

\* The arc new is the reflection of the arc old across the line: the center
\* is reflected, radius and extent are kept, and the bounds of new lie where
\* the reflection puts the bounds of old, in the opposite order.
IsReflection(new, old, line_start, line_end) ==
    /\ new.kind = "arc"
    /\ new.radius = old.radius
    /\ new.center = MirrorPoint(old.center, line_start, line_end).point
    /\ new.theta_interval[2] - new.theta_interval[1]
          = old.theta_interval[2] - old.theta_interval[1]
    /\ ArcPoint(new, new.theta_interval[2])
          = MirrorPoint(ArcPoint(old, old.theta_interval[1]), line_start, line_end).point
    /\ ArcPoint(new, new.theta_interval[1])
          = MirrorPoint(ArcPoint(old, old.theta_interval[2]), line_start, line_end).point

\* C9: mirroring an arc produces its true reflection, and mirroring the
\* result again across the same line gives an arc geometrically equal to
\* the original.
C9_ArcMirrorIsReflection ==
    /\ (Transformed /\ hist[1].op = "mirror" /\ Original(hist[1]).kind = "arc") =>
          IsReflection(Result(hist[1]), Original(hist[1]),
                       FromPair(hist[1].args[1]), FromPair(hist[1].args[2]))
    /\ (MirroredBack /\ Original(hist[2]).kind = "arc") =>
          GeomEq(Result(hist[1]), Original(hist[2]))

\* The two parts of C9, each alone.
C9_ReflectionOnly ==
    (Transformed /\ hist[1].op = "mirror" /\ Original(hist[1]).kind = "arc") =>
        IsReflection(Result(hist[1]), Original(hist[1]),
                     FromPair(hist[1].args[1]), FromPair(hist[1].args[2]))
C9_RoundTripOnly ==
    (MirroredBack /\ Original(hist[2]).kind = "arc") =>
        GeomEq(Result(hist[1]), Original(hist[2]))

C11_RadiusAlwaysPositive ==
    \A j \in 1..Len(objects) :
        objects[j].kind \in {"circle", "arc"} => objects[j].radius > 0

\* The part of C11 about transforms: a transform of a circle or arc of
\* positive radius returns one of positive radius.
C11_TransformsKeepRadiusPositive ==
    (Transformed /\ Original(hist[1]).kind \in {"circle", "arc"}
                 /\ Original(hist[1]).radius > 0) =>
        Result(hist[1]).radius > 0

\* The inch-to-meter factor 0.0254, as numerator and denominator.
InchToMeter == <<254, 10000>>

\* The last call constructed an entity from arguments in INCH units.
ConstructedInInch ==
    /\ hist # <<>>
    /\ hist[1].op = "add"
    /\ hist[1].args[4] = "INCH"

\* The length (of a line, in 1/Resolution) or radius an entity carries.
Size(e) == IF e.kind = "line" THEN e.length ELSE e.radius

\* The same measure of the arguments an entity was constructed from.
SizeGiven(args) ==
    IF args[1] = "line"
    THEN Sqrt((args[3].x - args[2].x) * (args[3].x - args[2].x)
              + (args[3].y - args[2].y) * (args[3].y - args[2].y))
    ELSE args[2]

\* The part of C12 about construction: an entity constructed in INCH carries
\* 0.0254 times the length or radius it was given.
C12_InchNormalizedAtConstruction ==
    ConstructedInInch =>
        Size(Result(hist[1])) * InchToMeter[2] = SizeGiven(hist[1].args) * InchToMeter[1]

\* The part of C12 about transforms: the entity a transform returns has the
\* length or radius of the entity it was called on.
C12_TransformsKeepSize ==
    Transformed => Size(Result(hist[1])) = Size(Original(hist[1]))

\* C12: an entity constructed in INCH units is normalized to meters at
\* construction (a line from (0,0) to (1,0) has length 0.0254), and no
\* transform changes its length or radius afterwards.
C12_InchNormalizedOnce ==
    /\ C12_InchNormalizedAtConstruction
    /\ C12_TransformsKeepSize

\* C13: a filter operation on a filter whose type argument is no entity class
\* (none given, a type variable, or something that is not a class), answered
\* by the evaluator, returns a filter whose entities are generic Entity
\* objects; it does not raise.
C13_MissingTypeFallsBackToEntity ==
    (Called /\ Self.orig_class \notin EntityClasses /\ lastCall.answer.ok
            /\ lastCall.op # "is_type") =>
        /\ ~lastCall.raised
        /\ \A k \in 1..Len(filters[lastCall.returned].available) :
              filters[lastCall.returned].available[k].cls = Entity

\* The part of C13 that the fallback of _entity_type covers: a type argument
\* that is a type variable.
C13_TypeVariableFallsBackToEntity ==
    (Called /\ Self.orig_class \in {TypeVarT, TypeVarE} /\ lastCall.answer.ok
            /\ lastCall.op # "is_type") =>
        /\ ~lastCall.raised
        /\ \A k \in 1..Len(filters[lastCall.returned].available) :
              filters[lastCall.returned].available[k].cls = Entity

====
